---- MODULE Spec2Model ----
(***************************************************************************)
(* Flight-support attribution service: the FastAPI application of          *)
(* src/main.py (lifespan, six request handlers, the module-level           *)
(* singletons) and the static configuration of src/src/utils/config.py.    *)
(*                                                                         *)
(* String literals of the source that are Chinese are written here in      *)
(* pinyin (TLA+ strings are ASCII); the original is quoted in the comment  *)
(* next to each. Floating point CV values are counted in hundredths.       *)
(***************************************************************************)
EXTENDS Integers, Sequences, FiniteSets, TLC

\* ------------------------------------------------------------------ bounds
\* concurrent requests the server holds at once
MaxReq == 2
\* rows a loaded dataset may have
MaxRows == 1
\* largest CV value classified, in hundredths
MaxCV == 35
\* most negative CV value classified, in hundredths below zero
MaxNegCV == 2

Slots == 1..MaxReq

\* ------------------------------------------------------------ Config (static)
\* Config.FEATURES['target_column']
target_column == "cv"

\* feature_columns with an attribution-only column in place of 'hour'
feature_columns_leaky ==
  << "task_type_encoded",
     "visibility", "wind_speed", "temperature", "weather_severity",
     "dep_delay", "arr_delay", "ready_delay", "start_delay", "end_delay",
     "status_encoded", "is_delayed", "is_cancelled", "is_early",
     "skill_level_encoded",
     "cv_hour", "day_of_week", "is_holiday", "time_period_encoded" >>

\* Config.FEATURES['feature_columns']
feature_columns ==
  << "task_type_encoded",
     "visibility", "wind_speed", "temperature", "weather_severity",
     "dep_delay", "arr_delay", "ready_delay", "start_delay", "end_delay",
     "status_encoded", "is_delayed", "is_cancelled", "is_early",
     "skill_level_encoded",
     "hour", "day_of_week", "is_holiday", "time_period_encoded" >>

\* Config.FEATURES['attribution_features']
attribution_features == << "cv_flight", "cv_task", "cv_airline", "cv_hour" >>

\* Config.FEATURES
FEATURES ==
  [ target_column        |-> target_column,
    feature_columns      |-> feature_columns,
    attribution_features |-> attribution_features ]

\* Config.PATHS
PATHS ==
  [ models |-> "models/", data |-> "data/", logs |-> "logs/",
    reports |-> "reports/", plots |-> "plots/" ]

\* Config.CV_THRESHOLDS, in hundredths; float('inf') is the string "inf"
CV_THRESHOLDS == [ very_low |-> 10, low |-> 20, medium |-> 30, high |-> "inf" ]

\* the strings get_cv_level returns
LevelVeryLow == "bodongxing hen xiao"    \* "波动性很小"
LevelLow     == "bodongxing jiao xiao"   \* "波动性较小"
LevelMedium  == "bodongxing zhongdeng"   \* "波动性中等"
LevelHigh    == "bodongxing jiao da"     \* "波动性较大"

\* get_cv_level with the thresholds compared by <= instead of <
get_cv_level_inclusive(cv_value) ==
  IF cv_value <= CV_THRESHOLDS.very_low THEN LevelVeryLow
  ELSE IF cv_value <= CV_THRESHOLDS.low THEN LevelLow
  ELSE IF cv_value <= CV_THRESHOLDS.medium THEN LevelMedium
  ELSE LevelHigh

\* Config.get_cv_level(cv_value)
get_cv_level(cv_value) ==
  IF cv_value < CV_THRESHOLDS.very_low THEN LevelVeryLow
  ELSE IF cv_value < CV_THRESHOLDS.low THEN LevelLow
  ELSE IF cv_value < CV_THRESHOLDS.medium THEN LevelMedium
  ELSE LevelHigh

\* the keys of params_map in Config.get_model_params
ModelNames == {"xgboost", "lightgbm", "catboost"}

\* Config.get_model_params(model_name): the name of the grid it returns
\* ("{}" for a name params_map does not hold); model_name.lower() is applied
\* by the caller's choice of spelling below
get_model_params(model_name) ==
  IF model_name = "xgboost" THEN "XGBOOST_PARAMS"
  ELSE IF model_name = "lightgbm" THEN "LIGHTGBM_PARAMS"
  ELSE IF model_name = "catboost" THEN "CATBOOST_PARAMS"
  ELSE "{}"

Range(s) == { s[k] : k \in 1..Len(s) }

\* dict.get(key, default)
DictGet(d, key, default) == IF key \in DOMAIN d THEN d[key] ELSE default

Abs(n) == IF n < 0 THEN -n ELSE n

\* ------------------------------------------------------------------- state
VARIABLES
  lifespan,              \* position of the lifespan coroutine
  data_processor,        \* module-level singleton: "None" or the object
  model_trainer,         \* module-level singleton: "None" or the object
  attribution_analyzer,  \* module-level singleton: "None" or the object
  model_info,            \* the dict ModelTrainer.get_model_info() returns
  req,                   \* per connection: the request received
  pc,                    \* per connection: position of its handler
  data,                  \* per connection: the dataset the handler loaded
  analysis,              \* per connection: what analyze_with_plots did
  exc,                   \* per connection: the exception raised in the try block
  resp,                  \* per connection: the response of the handler
  features,              \* Config.FEATURES (a mutable class attribute)
  database,              \* Config.DATABASE, read from the environment
  dirs,                  \* directories Config.create_directories made
  cfg_ret,               \* the last value a Config classmethod returned
  cv_calls               \* the last two get_cv_level calls <<value, level>>

service_vars ==
  << lifespan, data_processor, model_trainer, attribution_analyzer,
     model_info, req, pc, data, analysis, exc, resp >>
config_vars == << features, database, dirs, cfg_ret, cv_calls >>
vars == << service_vars, config_vars >>

\* --------------------------------------------------------- requests, values
TaskIds == {7}
Times == <<"2024-01-01 08:00:00", "2024-01-01 12:00:00">>

NoReq == [kind |-> "none", task_id |-> 0, start_time |-> "", end_time |-> ""]

\* TaskIdRequest, TimeRangeRequest and the four routes without a body
Requests ==
  { [kind |-> k, task_id |-> 0, start_time |-> "", end_time |-> ""] :
      k \in {"root", "health", "train", "model_info"} }
  \cup { [kind |-> "attr_task", task_id |-> t, start_time |-> "", end_time |-> ""] :
           t \in TaskIds }
  \cup { [kind |-> "attr_time", task_id |-> 0, start_time |-> Times[1],
          end_time |-> Times[2]] }

\* a dataset is the tuple of its row counts: <<rows>> for a dataframe,
\* <<len(X_train), len(X_test)>> for the split load_and_preprocess returns
NoData == << >>
NoBody == << >>
NoResp == [status |-> 0, detail |-> "", body |-> NoBody]
\* analyze_with_plots not called, called and raised, called and returned
NotCalled == [called |-> FALSE, raised |-> FALSE, result |-> NoBody]
Raised == [called |-> TRUE, raised |-> TRUE, result |-> NoBody]
Returned(result) == [called |-> TRUE, raised |-> FALSE, result |-> result]

\* no exception was raised
NoExc == [cls |-> "none", status_code |-> 0, detail |-> ""]
\* an exception in flight: str(e) is its detail
PyException(msg) == [cls |-> "Exception", status_code |-> 0, detail |-> msg]
\* fastapi.HTTPException(status_code, detail)
HTTPException(code, msg) == [cls |-> "HTTPException", status_code |-> code, detail |-> msg]

\* what FastAPI sends for an HTTPException leaving a handler
ErrorResponse(e) == [status |-> e.status_code, detail |-> e.detail, body |-> NoBody]
\* what FastAPI sends for a value a handler returns
OkResponse(body) == [status |-> 200, detail |-> "", body |-> body]

\* the AttributeError of a call on a singleton that is still None
NoneTypeError(method) ==
  PyException("'NoneType' object has no attribute '" \o method \o "'")

\* ------------------------------------------------- collaborators (contracts)
\* DataProcessor.load_data_by_task_id / load_data_by_time_range: the
\* dataframes it may return, by row count (0: empty)
Frames == { <<n>> : n \in 0..MaxRows }
\* DataProcessor.load_and_preprocess: the splits it may return
Splits == { <<n, IF n = 0 THEN 0 ELSE 1>> : n \in 0..MaxRows }
\* messages of the exceptions the collaborators raise
ProcessorErrors == {"connection refused"}
AnalyzerErrors == {"model not trained"}
TrainerErrors == {"fit failed"}

\* an emptiness test that never fires (`is None` in place of `.empty`)
IsEmptyNever(frame) == FALSE

\* dataframe.empty
IsEmpty(frame) == frame[1] = 0

\* the sets of columns the analyzer reports on in this model, and the scores
\* it gives
ReportedColumnSets == { {"cv_task"}, {"dep_delay", "cv_task"} }
Scores == {-2, 1}

\* the pairs (feature, importance) of a mapping, in every order that is
\* descending in importance magnitude
RankedFeatures(f) ==
  { s \in [1..Cardinality(DOMAIN f) -> { <<k, f[k]>> : k \in DOMAIN f }] :
      /\ \A a, b \in DOMAIN s : a # b => s[a] # s[b]
      /\ \A a, b \in DOMAIN s : a < b => Abs(s[a][2]) >= Abs(s[b][2]) }

\* AttributionAnalyzer.analyze_with_plots(frame): the results it may return
AnalyzerResults ==
  UNION { UNION { { [feature_importance |-> f, top_features |-> t,
                     plots |-> [shap_summary |-> PATHS.plots \o "shap_summary.png"]] :
                      t \in RankedFeatures(f) } :
                    f \in [cols -> Scores] } :
            cols \in ReportedColumnSets }

\* ModelTrainer.train(data): the (best_model, metrics) it may return
Metrics == { [rmse |-> 12, r2 |-> 80] }
TrainResults == { <<m, x>> : m \in ModelNames, x \in Metrics }
TrainingDate == "2024-01-02 03:04:05"

\* ModelTrainer's model info after a run that selected best_model
TrainedInfo(best_model, metrics) ==
  [ best_model |-> best_model, training_date |-> TrainingDate,
    feature_count |-> Len(feature_columns), metrics |-> metrics ]

\* ModelTrainer's model info before any run
UntrainedInfo == << >>

\* ------------------------------------------------------------ the event loop
\* positions inside a handler's body
InHandler == {"check", "analyze", "train", "training"}
\* the train call handed to a worker thread and awaited
AwaitPointsThreaded == {"training"}
\* positions at which a handler awaits: every handler is an `async def` whose
\* body holds no await expression
AwaitPoints == {}
\* the event loop runs one coroutine until it awaits or returns: a handler
\* may start only while no other handler is inside its body and not suspended
LoopFree == \A j \in Slots : pc[j] \in InHandler => pc[j] \in AwaitPoints

\* ------------------------------------------------------------------ lifespan
Init ==
  /\ lifespan = "init_data_processor"
  /\ data_processor = "None"
  /\ model_trainer = "None"
  /\ attribution_analyzer = "None"
  /\ model_info = UntrainedInfo
  /\ req = [i \in Slots |-> NoReq]
  /\ pc = [i \in Slots |-> "idle"]
  /\ data = [i \in Slots |-> NoData]
  /\ analysis = [i \in Slots |-> NotCalled]
  /\ exc = [i \in Slots |-> NoExc]
  /\ resp = [i \in Slots |-> NoResp]
  /\ features = FEATURES
  /\ database = [host |-> "localhost", port |-> 3306, user |-> "root",
                 database |-> "flight_guarantee"]
  /\ dirs = {}
  /\ cfg_ret = [op |-> "none", value |-> ""]
  /\ cv_calls = << >>

\* data_processor = DataProcessor()
InitDataProcessor ==
  /\ lifespan = "init_data_processor"
  /\ \/ /\ data_processor' = "DataProcessor"
        /\ lifespan' = "init_model_trainer"
     \/ /\ lifespan' = "failed"            \* the constructor raises: raise e
        /\ UNCHANGED data_processor
  /\ UNCHANGED << model_trainer, attribution_analyzer, model_info, req, pc,
                  data, analysis, exc, resp, config_vars >>

\* model_trainer = ModelTrainer()
InitModelTrainer ==
  /\ lifespan = "init_model_trainer"
  /\ \/ /\ model_trainer' = "ModelTrainer"
        /\ lifespan' = "init_attribution_analyzer"
     \/ /\ lifespan' = "failed"
        /\ UNCHANGED model_trainer
  /\ UNCHANGED << data_processor, attribution_analyzer, model_info, req, pc,
                  data, analysis, exc, resp, config_vars >>

\* attribution_analyzer = AttributionAnalyzer(); then yield
InitAttributionAnalyzer ==
  /\ lifespan = "init_attribution_analyzer"
  /\ \/ /\ attribution_analyzer' = "AttributionAnalyzer"
        /\ lifespan' = "serving"
     \/ /\ lifespan' = "failed"
        /\ UNCHANGED attribution_analyzer
  /\ UNCHANGED << data_processor, model_trainer, model_info, req, pc,
                  data, analysis, exc, resp, config_vars >>

\* requests served regardless of the lifespan's progress
ServingAlways == TRUE

\* the application serves requests between the lifespan's yield and shutdown
Serving == lifespan = "serving"

\* after yield: the server has drained its connections
Shutdown ==
  /\ lifespan = "serving"
  /\ \A j \in Slots : pc[j] = "idle"
  /\ lifespan' = "stopped"
  /\ UNCHANGED << data_processor, model_trainer, attribution_analyzer,
                  model_info, req, pc, data, analysis, exc, resp, config_vars >>

\* ------------------------------------------------------------------ requests
\* a request arrives on connection i
Receive(i, r) ==
  /\ Serving
  /\ pc[i] = "idle"
  /\ req' = [req EXCEPT ![i] = r]
  /\ pc' = [pc EXCEPT ![i] = "pending"]
  /\ UNCHANGED << lifespan, data_processor, model_trainer, attribution_analyzer,
                  model_info, data, analysis, exc, resp, config_vars >>

\* the response is sent and the connection is free again
Deliver(i) ==
  /\ pc[i] = "done"
  /\ req' = [req EXCEPT ![i] = NoReq]
  /\ pc' = [pc EXCEPT ![i] = "idle"]
  /\ data' = [data EXCEPT ![i] = NoData]
  /\ analysis' = [analysis EXCEPT ![i] = NotCalled]
  /\ exc' = [exc EXCEPT ![i] = NoExc]
  /\ resp' = [resp EXCEPT ![i] = NoResp]
  /\ UNCHANGED << lifespan, data_processor, model_trainer, attribution_analyzer,
                  model_info, config_vars >>

\* the handler on connection i returns body
Return(i, body) ==
  /\ resp' = [resp EXCEPT ![i] = OkResponse(body)]
  /\ pc' = [pc EXCEPT ![i] = "done"]
  /\ UNCHANGED exc

\* e is raised in the try block of the handler on connection i, whose except
\* clauses let the exception out leave the handler
Raise(i, e, out) ==
  /\ exc' = [exc EXCEPT ![i] = e]
  /\ resp' = [resp EXCEPT ![i] = ErrorResponse(out)]
  /\ pc' = [pc EXCEPT ![i] = "done"]

\* GET /
root(i) ==
  /\ pc[i] = "pending" /\ req[i].kind = "root" /\ LoopFree
  \* "航班归因分析系统API"
  /\ Return(i, [message |-> "hangban guiyin fenxi xitong API"])
  /\ UNCHANGED << lifespan, data_processor, model_trainer, attribution_analyzer,
                  model_info, req, data, analysis, config_vars >>

\* GET /health
health_check(i) ==
  /\ pc[i] = "pending" /\ req[i].kind = "health" /\ LoopFree
  \* "系统运行正常"
  /\ Return(i, [status |-> "healthy", message |-> "xitong yunxing zhengchang"])
  /\ UNCHANGED << lifespan, data_processor, model_trainer, attribution_analyzer,
                  model_info, req, data, analysis, config_vars >>

\* ------------------------------------------------- the attribution endpoints
AttrKinds == {"attr_task", "attr_time"}

\* the method of data_processor each attribution handler calls
LoadMethod(r) ==
  IF r.kind = "attr_task" THEN "load_data_by_task_id" ELSE "load_data_by_time_range"

\* the exceptions a call on a singleton may raise
CallErrors(singleton, method, messages) ==
  IF singleton = "None" THEN { NoneTypeError(method) }
  ELSE { PyException(m) : m \in messages }

\* the detail of the 404 each attribution handler raises
NotFoundDetail(r) ==
  IF r.kind = "attr_task"
  THEN "renwu ID " \o ToString(r.task_id) \o " meiyou zhaodao shuju"
       \* f"任务ID {request.task_id} 没有找到数据"
  ELSE "shijianduan " \o r.start_time \o " dao " \o r.end_time
       \o " meiyou zhaodao shuju"
       \* f"时间段 {request.start_time} 到 {request.end_time} 没有找到数据"

\* the handler without its `except HTTPException: raise` clause
attribution_except_generic(e) ==
  HTTPException(500, "guiyin fenxi shibai: " \o e.detail)

\* except HTTPException: raise
\* except Exception as e: raise HTTPException(500, f"归因分析失败: {str(e)}")
attribution_except(e) ==
  IF e.cls = "HTTPException" THEN e
  ELSE HTTPException(500, "guiyin fenxi shibai: " \o e.detail)

\* the list built in reverse order
FeatureListReversed(top_features) ==
  [ n \in 1..Len(top_features) |->
      [feature |-> top_features[Len(top_features) + 1 - n][1],
       importance |-> top_features[Len(top_features) + 1 - n][2]] ]

\* [{'feature': k, 'importance': v} for k, v in result['top_features']]
FeatureList(top_features) ==
  [ n \in 1..Len(top_features) |->
      [feature |-> top_features[n][1], importance |-> top_features[n][2]] ]

\* data_summary of each attribution handler
DataSummary(r, frame, result) ==
  IF r.kind = "attr_task"
  THEN [ task_id |-> r.task_id, total_samples |-> frame[1],
         feature_count |-> Cardinality(DOMAIN result.feature_importance) ]
  ELSE [ start_time |-> r.start_time, end_time |-> r.end_time,
         total_samples |-> frame[1],
         feature_count |-> Cardinality(DOMAIN result.feature_importance) ]

\* message of each attribution handler
DoneMessage(r) ==
  IF r.kind = "attr_task"
  THEN "renwu ID " \o ToString(r.task_id)
       \o " guiyin fenxi wancheng, SHAP tu yi shengcheng"
       \* f"任务ID {request.task_id} 归因分析完成，SHAP图已生成"
  ELSE "shijianduan " \o r.start_time \o " dao " \o r.end_time
       \o " guiyin fenxi wancheng, SHAP tu yi shengcheng"
       \* f"时间段 ... 到 ... 归因分析完成，SHAP图已生成"

\* AttributionResponse(...)
AttributionResponse(r, frame, result) ==
  [ shap_values        |-> result.feature_importance,
    feature_importance |-> FeatureList(result.top_features),
    top_features       |-> FeatureList(result.top_features),
    data_summary       |-> DataSummary(r, frame, result),
    plots              |-> result.plots,
    message            |-> DoneMessage(r) ]

\* task_data = data_processor.load_data_by_task_id(request.task_id)
\* time_data = data_processor.load_data_by_time_range(start_time, end_time)
attribution_load(i) ==
  /\ pc[i] = "pending" /\ req[i].kind \in AttrKinds /\ LoopFree
  /\ \/ \E frame \in Frames :
          /\ data_processor # "None"
          /\ data' = [data EXCEPT ![i] = frame]
          /\ pc' = [pc EXCEPT ![i] = "check"]
          /\ UNCHANGED << exc, resp >>
     \/ \E e \in CallErrors(data_processor, LoadMethod(req[i]), ProcessorErrors) :
          /\ Raise(i, e, attribution_except(e))
          /\ UNCHANGED data
  /\ UNCHANGED << lifespan, data_processor, model_trainer, attribution_analyzer,
                  model_info, req, analysis, config_vars >>

\* if task_data.empty: raise HTTPException(status_code=404, ...)
attribution_check(i) ==
  /\ pc[i] = "check"
  /\ IF IsEmpty(data[i])
     THEN Raise(i, HTTPException(404, NotFoundDetail(req[i])),
                attribution_except(HTTPException(404, NotFoundDetail(req[i]))))
     ELSE /\ pc' = [pc EXCEPT ![i] = "analyze"]
          /\ UNCHANGED << exc, resp >>
  /\ UNCHANGED << lifespan, data_processor, model_trainer, attribution_analyzer,
                  model_info, req, data, analysis, config_vars >>

\* result = attribution_analyzer.analyze_with_plots(task_data)
\* return AttributionResponse(...)
attribution_analyze(i) ==
  /\ pc[i] = "analyze"
  /\ \/ \E result \in AnalyzerResults :
          /\ attribution_analyzer # "None"
          /\ analysis' = [analysis EXCEPT ![i] = Returned(result)]
          /\ Return(i, AttributionResponse(req[i], data[i], result))
     \/ \E e \in CallErrors(attribution_analyzer, "analyze_with_plots", AnalyzerErrors) :
          /\ analysis' = [analysis EXCEPT ![i] =
                            IF attribution_analyzer = "None" THEN NotCalled ELSE Raised]
          /\ Raise(i, e, attribution_except(e))
  /\ UNCHANGED << lifespan, data_processor, model_trainer, attribution_analyzer,
                  model_info, req, data, config_vars >>

\* ------------------------------------------------------- POST /api/v1/train
\* the 500 raised without the message of the exception caught
train_except_silent(e) == HTTPException(500, "moxing xunlian shibai")

\* except Exception as e: raise HTTPException(500, f"模型训练失败: {str(e)}")
train_except(e) == HTTPException(500, "moxing xunlian shibai: " \o e.detail)

\* the dict train_model returns
TrainBody(best_model, metrics, split) ==
  [ message          |-> "moxing xunlian wancheng",     \* "模型训练完成"
    best_model       |-> best_model,
    metrics          |-> metrics,
    training_samples |-> split[1],
    test_samples     |-> split[2] ]

\* data = data_processor.load_and_preprocess()
train_model_load(i) ==
  /\ pc[i] = "pending" /\ req[i].kind = "train" /\ LoopFree
  /\ \/ \E split \in Splits :
          /\ data_processor # "None"
          /\ data' = [data EXCEPT ![i] = split]
          /\ pc' = [pc EXCEPT ![i] = "train"]
          /\ UNCHANGED << exc, resp >>
     \/ \E e \in CallErrors(data_processor, "load_and_preprocess", ProcessorErrors) :
          /\ Raise(i, e, train_except(e))
          /\ UNCHANGED data
  /\ UNCHANGED << lifespan, data_processor, model_trainer, attribution_analyzer,
                  model_info, req, analysis, config_vars >>

\* model_trainer.train(data) is entered: the trainer fits its candidates
train_model_fit(i) ==
  /\ pc[i] = "train"
  /\ IF model_trainer = "None"
     THEN Raise(i, NoneTypeError("train"), train_except(NoneTypeError("train")))
     ELSE /\ pc' = [pc EXCEPT ![i] = "training"]
          /\ UNCHANGED << exc, resp >>
  /\ UNCHANGED << lifespan, data_processor, model_trainer, attribution_analyzer,
                  model_info, req, data, analysis, config_vars >>

\* best_model, metrics = model_trainer.train(data) returns or raises;
\* return {...}
train_model_finish(i) ==
  /\ pc[i] = "training"
  /\ \/ \E t \in TrainResults :
          /\ model_info' = TrainedInfo(t[1], t[2])
          /\ Return(i, TrainBody(t[1], t[2], data[i]))
     \/ \E m \in TrainerErrors :
          /\ Raise(i, PyException(m), train_except(PyException(m)))
          /\ UNCHANGED model_info
  /\ UNCHANGED << lifespan, data_processor, model_trainer, attribution_analyzer,
                  req, data, analysis, config_vars >>

\* ---------------------------------------------------- GET /api/v1/model/info
\* except Exception as e: raise HTTPException(500, f"获取模型信息失败: {str(e)}")
model_info_except(e) == HTTPException(500, "huoqu moxing xinxi shibai: " \o e.detail)

\* the response built with None and -1 as the defaults
ModelInfoResponseStrict(info) ==
  [ type          |-> DictGet(info, "best_model", "None"),
    training_date |-> DictGet(info, "training_date", "None"),
    feature_count |-> DictGet(info, "feature_count", -1),
    performance   |-> DictGet(info, "metrics", << >>) ]

\* ModelInfoResponse(type=model_info.get('best_model', '未知'), ...)
ModelInfoResponse(info) ==
  [ type          |-> DictGet(info, "best_model", "weizhi"),      \* '未知'
    training_date |-> DictGet(info, "training_date", "weizhi"),   \* '未知'
    feature_count |-> DictGet(info, "feature_count", 0),
    performance   |-> DictGet(info, "metrics", << >>) ]

\* the handler writing its defaults back into the trainer's dict
get_model_info_writing(i) ==
  /\ pc[i] = "pending" /\ req[i].kind = "model_info" /\ LoopFree
  /\ model_trainer # "None"
  /\ model_info' = [ best_model    |-> DictGet(model_info, "best_model", "weizhi"),
                     training_date |-> DictGet(model_info, "training_date", "weizhi"),
                     feature_count |-> DictGet(model_info, "feature_count", 0),
                     metrics       |-> DictGet(model_info, "metrics", << >>) ]
  /\ Return(i, [ type          |-> DictGet(model_info, "best_model", "weizhi"),
                 training_date |-> DictGet(model_info, "training_date", "weizhi"),
                 feature_count |-> DictGet(model_info, "feature_count", 0),
                 performance   |-> DictGet(model_info, "metrics", << >>) ])
  /\ UNCHANGED << lifespan, data_processor, model_trainer, attribution_analyzer,
                  req, data, analysis, config_vars >>

\* model_info = model_trainer.get_model_info(); return ModelInfoResponse(...)
get_model_info(i) ==
  /\ pc[i] = "pending" /\ req[i].kind = "model_info" /\ LoopFree
  /\ IF model_trainer = "None"
     THEN Raise(i, NoneTypeError("get_model_info"),
                model_info_except(NoneTypeError("get_model_info")))
     ELSE Return(i, ModelInfoResponse(model_info))
  /\ UNCHANGED << lifespan, data_processor, model_trainer, attribution_analyzer,
                  model_info, req, data, analysis, config_vars >>

\* ----------------------------------------------------------- specification
Next ==
  \/ InitDataProcessor
  \/ InitModelTrainer
  \/ InitAttributionAnalyzer
  \/ Shutdown
  \/ \E i \in Slots : \E r \in Requests : Receive(i, r)
  \/ \E i \in Slots : Deliver(i)
  \/ \E i \in Slots : root(i)
  \/ \E i \in Slots : health_check(i)
  \/ \E i \in Slots : attribution_load(i)
  \/ \E i \in Slots : attribution_check(i)
  \/ \E i \in Slots : attribution_analyze(i)
  \/ \E i \in Slots : train_model_load(i)
  \/ \E i \in Slots : train_model_fit(i)
  \/ \E i \in Slots : train_model_finish(i)
  \/ \E i \in Slots : get_model_info(i)

Spec == Init /\ [][Next]_vars

\* ------------------------------------------------- Config's own operations
\* the environment the module is imported in: DB_HOST set or not
EnvHosts == {"localhost", "db.internal"}

\* Config.DATABASE as the class body builds it
DatabaseOf(host) ==
  [ host |-> host, port |-> 3306, user |-> "root", password |-> "",
    database |-> "flight_guarantee", charset |-> "utf8mb4",
    hostname |-> "localhost", version |-> "8.0.43", datadir |-> "" ]

ConfigInit ==
  /\ lifespan = "init_data_processor"
  /\ data_processor = "None"
  /\ model_trainer = "None"
  /\ attribution_analyzer = "None"
  /\ model_info = UntrainedInfo
  /\ req = [i \in Slots |-> NoReq]
  /\ pc = [i \in Slots |-> "idle"]
  /\ data = [i \in Slots |-> NoData]
  /\ analysis = [i \in Slots |-> NotCalled]
  /\ exc = [i \in Slots |-> NoExc]
  /\ resp = [i \in Slots |-> NoResp]
  /\ features = FEATURES
  /\ \E h \in EnvHosts : database = DatabaseOf(h)
  /\ dirs = {}
  /\ cfg_ret = [op |-> "none", value |-> ""]
  /\ cv_calls = << >>

\* the CV values classified, in hundredths
CVValues == (0 - MaxNegCV)..MaxCV

\* Config.get_cv_level(cv_value) is called; the last two calls are kept
GetCvLevel(cv_value) ==
  /\ cv_calls' = << <<cv_value, get_cv_level(cv_value)>> >>
                   \o (IF cv_calls = << >> THEN << >> ELSE << cv_calls[1] >>)
  /\ UNCHANGED << service_vars, features, database, dirs, cfg_ret >>

\* str.lower() on the names passed in this model
Lower(name) ==
  IF name = "XGBoost" THEN "xgboost"
  ELSE IF name = "LIGHTGBM" THEN "lightgbm"
  ELSE name

\* Config.get_model_params(model_name) is called
GetModelParams(model_name) ==
  /\ cfg_ret' = [op |-> "get_model_params",
                 value |-> get_model_params(Lower(model_name))]
  /\ UNCHANGED << service_vars, features, database, dirs, cv_calls >>

\* Config.get_database_url() is called
GetDatabaseUrl ==
  /\ cfg_ret' = [op |-> "get_database_url",
                 value |-> "mysql+pymysql://" \o database.user \o ":"
                           \o database.password \o "@" \o database.host \o ":"
                           \o ToString(database.port) \o "/" \o database.database]
  /\ UNCHANGED << service_vars, features, database, dirs, cv_calls >>

\* Config.get_database_config() is called
GetDatabaseConfig ==
  /\ cfg_ret' = [op |-> "get_database_config",
                 value |-> [ k \in {"host", "port", "user", "password",
                                    "database", "charset"} |-> database[k] ]]
  /\ UNCHANGED << service_vars, features, database, dirs, cv_calls >>

\* Config.get_connection_info() is called
GetConnectionInfo ==
  /\ cfg_ret' = [op |-> "get_connection_info",
                 value |-> [ k \in {"host", "database", "user", "charset",
                                    "hostname", "version", "datadir"} |-> database[k] ]
                           @@ [port |-> ToString(database.port)]]
  /\ UNCHANGED << service_vars, features, database, dirs, cv_calls >>

\* Config.create_directories() is called
CreateDirectories ==
  /\ dirs' = dirs \cup { PATHS[k] : k \in DOMAIN PATHS }
  /\ cfg_ret' = [op |-> "create_directories", value |-> ""]
  /\ UNCHANGED << service_vars, features, database, cv_calls >>

ConfigNext ==
  \/ \E v \in CVValues : GetCvLevel(v)
  \/ \E n \in ModelNames \cup {"XGBoost", "LIGHTGBM", "sklearn"} : GetModelParams(n)
  \/ GetDatabaseUrl
  \/ GetDatabaseConfig
  \/ GetConnectionInfo
  \/ CreateDirectories

SpecConfig == ConfigInit /\ [][ConfigNext]_vars

\* =================================================================== claims
AllColumns == Range(features.feature_columns) \cup Range(features.attribution_features)

\* the bucket of a CV value (hundredths), by the ranges of the specification
BucketOf(v) ==
  IF v < 10 THEN 0 ELSE IF v < 20 THEN 1 ELSE IF v < 30 THEN 2 ELSE 3

\* the order of the levels get_cv_level returns
LevelRank(level) ==
  IF level = LevelVeryLow THEN 0
  ELSE IF level = LevelLow THEN 1
  ELSE IF level = LevelMedium THEN 2
  ELSE IF level = LevelHigh THEN 3
  ELSE -1

\* C3 as stated: get_cv_level returns the strings "very_low", "low", "medium"
\* and "high" for the four ranges <0.1, [0.1,0.2), [0.2,0.3), >=0.3.
C3_LevelNamesAsStated ==
  \A n \in DOMAIN cv_calls :
    cv_calls[n][2] = << "very_low", "low", "medium", "high" >>[BucketOf(cv_calls[n][1]) + 1]

\* C3 (amended): get_cv_level maps values below 0.1 to the very-low label
\* "波动性很小", [0.1,0.2) to the low label "波动性较小", [0.2,0.3) to the medium
\* label "波动性中等" and values >= 0.3 to the high label "波动性较大"; each value
\* gets exactly one level, the boundaries 0.1, 0.2, 0.3 fall in the upper
\* bucket, and a larger value never gets a lower level.
C3_CvLevelBuckets ==
  /\ \A n \in DOMAIN cv_calls :
       /\ LevelRank(cv_calls[n][2]) = BucketOf(cv_calls[n][1])
       /\ cv_calls[n][1] = 10 => cv_calls[n][2] = LevelLow
       /\ cv_calls[n][1] = 20 => cv_calls[n][2] = LevelMedium
       /\ cv_calls[n][1] = 30 => cv_calls[n][2] = LevelHigh
  /\ \A a, b \in DOMAIN cv_calls :
       cv_calls[a][1] <= cv_calls[b][1] =>
         LevelRank(cv_calls[a][2]) <= LevelRank(cv_calls[b][2])

\* two calls, the earlier just below a threshold and the later on it
C3_Witness ==
  /\ Len(cv_calls) = 2
  /\ cv_calls[2] = <<9, LevelVeryLow>>
  /\ cv_calls[1] = <<10, LevelLow>>

\* C7: the prediction feature columns and the attribution-only columns
\* (cv_flight, cv_task, cv_airline, cv_hour) are disjoint, neither list holds
\* the target column 'cv', and no operation of Config changes the lists.
C7_FeaturesDisjoint ==
  /\ Range(features.feature_columns) \cap Range(features.attribution_features) = {}
  /\ Range(features.attribution_features) = {"cv_flight", "cv_task", "cv_airline", "cv_hour"}
  /\ features.target_column = "cv"
  /\ features.target_column \notin AllColumns
  /\ Len(features.feature_columns) = 19
  /\ Cardinality(Range(features.feature_columns)) = 19

\* every kind of Config operation has run
C7_Witness ==
  /\ dirs # {}
  /\ cfg_ret.op = "get_connection_info"
  /\ cv_calls # << >>
  /\ Range(features.feature_columns) \cap Range(features.attribution_features) = {}

\* the handler on connection i has ended
Done(i) == pc[i] = "done"
\* the attribution handler on connection i loaded an empty dataset
LoadedEmpty(i) ==
  /\ req[i].kind \in AttrKinds
  /\ Len(data[i]) = 1
  /\ data[i][1] = 0
\* the attribution handler on connection i is past its emptiness test
PastCheck(i) == pc[i] \in {"analyze", "done"}

\* C1: in both attribution endpoints, whenever the data processor returned
\* an empty dataset the response is HTTP 404, never 200 and never 500.
C1_EmptyDataIs404 ==
  \A i \in Slots :
    LoadedEmpty(i) /\ PastCheck(i) => Done(i) /\ resp[i].status = 404

\* both endpoints have answered 404 for an empty dataset
C1_Witness ==
  \E i, j \in Slots :
    /\ req[i].kind = "attr_task" /\ req[j].kind = "attr_time"
    /\ LoadedEmpty(i) /\ LoadedEmpty(j)
    /\ Done(i) /\ Done(j)
    /\ resp[i].status = 404 /\ resp[j].status = 404

\* C10: in both attribution endpoints analyze_with_plots is called only on
\* non-empty data, and the 404 raised for empty data leaves the handler
\* unchanged (same status, same detail), not as a 500.
C10_AnalyzerOnlyOnData ==
  \A i \in Slots :
    /\ analysis[i].called => Len(data[i]) = 1 /\ data[i][1] > 0
    /\ LoadedEmpty(i) /\ PastCheck(i) =>
         /\ analysis[i] = NotCalled
         /\ exc[i] = HTTPException(404, NotFoundDetail(req[i]))
         /\ resp[i].status = exc[i].status_code
         /\ resp[i].detail = exc[i].detail
         /\ resp[i].body = NoBody

\* a task request ended 404 without the analyzer, while a time-range request
\* on non-empty data had its analysis done
C10_Witness ==
  \E i, j \in Slots :
    /\ req[i].kind = "attr_task" /\ LoadedEmpty(i) /\ Done(i)
    /\ analysis[i] = NotCalled
    /\ resp[i].detail = "renwu ID 7 meiyou zhaodao shuju"
    /\ req[j].kind = "attr_time" /\ Done(j) /\ analysis[j].called
    /\ ~analysis[j].raised

\* the prefix each handler puts before str(e) in the detail of its 500
Prefix(kind) ==
  IF kind \in AttrKinds THEN "guiyin fenxi shibai: "
  ELSE IF kind = "train" THEN "moxing xunlian shibai: "
  ELSE "huoqu moxing xinxi shibai: "

\* the handler on connection i loaded a dataset with no rows
LoadedNoRows(i) == Len(data[i]) >= 1 /\ data[i][1] = 0

\* C2 as stated: every endpoint answers 404 for empty data and 500, with the
\* message of the exception in the detail, for any other exception.
C2_StatusMapAsStated ==
  \A i \in Slots :
    Done(i) =>
      /\ LoadedNoRows(i) => resp[i].status = 404
      /\ exc[i].cls = "Exception" =>
           resp[i].status = 500 /\ resp[i].detail = Prefix(req[i].kind) \o exc[i].detail

\* C2 (amended): the two attribution endpoints answer 404 for empty data;
\* the train endpoint has no emptiness test and never answers 404; in all
\* four endpoints any exception of the data processor, trainer or analyzer
\* becomes a 500 whose detail is the handler's prefix followed by the
\* exception's message; a handler ends with 200, 404 or 500 only, and an
\* error response carries no result.
C2_StatusMap ==
  \A i \in Slots :
    Done(i) =>
      /\ resp[i].status \in {200, 404, 500}
      /\ resp[i].status = 404 <=> LoadedEmpty(i)
      /\ resp[i].status = 500 <=> exc[i].cls = "Exception"
      /\ resp[i].status = 200 <=> exc[i] = NoExc
      /\ exc[i].cls = "Exception" =>
           resp[i].detail = Prefix(req[i].kind) \o exc[i].detail
      /\ resp[i].status # 200 => resp[i].body = NoBody
      /\ resp[i].status = 200 => resp[i].body # NoBody /\ resp[i].detail = ""
      /\ req[i].kind \in {"train", "model_info", "root", "health"} =>
           resp[i].status # 404

\* a train request on an empty split ended 500 with the trainer's message,
\* beside an attribution request that ended 500 with the processor's
C2_Witness ==
  \E i, j \in Slots :
    /\ req[i].kind = "train" /\ Done(i) /\ data[i] = <<0, 0>>
    /\ resp[i].status = 500
    /\ resp[i].detail = "moxing xunlian shibai: fit failed"
    /\ req[j].kind \in AttrKinds /\ Done(j)
    /\ resp[j].detail = "guiyin fenxi shibai: connection refused"

\* C4: GET /api/v1/model/info answered before any training run has completed
\* is a success carrying type = "未知", training_date = "未知",
\* feature_count = 0 and an empty performance.
C4_ModelInfoDefaults ==
  \A i \in Slots :
    req[i].kind = "model_info" /\ Done(i) /\ model_info = UntrainedInfo =>
      /\ resp[i].status = 200
      /\ exc[i] = NoExc
      /\ resp[i].body.type = "weizhi"
      /\ resp[i].body.training_date = "weizhi"
      /\ resp[i].body.feature_count = 0
      /\ resp[i].body.performance = << >>

\* model info was read with no model trained, after a training run failed
C4_Witness ==
  \E i, j \in Slots :
    /\ req[i].kind = "model_info" /\ Done(i) /\ resp[i].status = 200
    /\ req[j].kind = "train" /\ Done(j) /\ resp[j].status = 500
    /\ model_info = UntrainedInfo

\* connection j runs the body of the train handler
InTrainHandler(j) == req[j].kind = "train" /\ pc[j] \in {"train", "training"}

\* C5 as stated: no mutual exclusion guards the train handler, so while one
\* train request is inside model_trainer.train a second train request that
\* has arrived can start its handler.
C5_SecondTrainCanStart ==
  \A i, j \in Slots :
    (i # j /\ req[i].kind = "train" /\ pc[i] = "training"
           /\ req[j].kind = "train" /\ pc[j] = "pending")
      => ENABLED train_model_load(j)

\* C5 (amended): no lock guards the train handler, but every handler is a
\* coroutine without an await, which the event loop runs to its end before
\* it starts another: while one train request is inside model_trainer.train
\* no other request, a second train request included, is inside a handler;
\* the second stays pending until the first has ended.
C5_TrainRunsAlone ==
  \A i, j \in Slots :
    (i # j /\ req[i].kind = "train" /\ pc[i] = "training") =>
      /\ ~InTrainHandler(j)
      /\ pc[j] \notin InHandler

\* one train request is inside model_trainer.train, a second has arrived
C5_Witness ==
  \E i, j \in Slots :
    /\ i # j
    /\ req[i].kind = "train" /\ pc[i] = "training"
    /\ req[j].kind = "train" /\ pc[j] = "pending"

\* C6: model info changes only in a step that ends a successful training
\* run; the handlers of /, /health, both attribution endpoints and model
\* info leave it as it is, and a model-info read returns what it holds.
C6_ModelInfoFrame ==
  [][ /\ model_info' # model_info =>
           \E i \in Slots :
             /\ req[i].kind = "train" /\ pc[i] = "training"
             /\ pc'[i] = "done" /\ resp'[i].status = 200
             /\ model_info'.best_model = resp'[i].body.best_model
      /\ \A i \in Slots :
           (req[i].kind = "model_info" /\ pc[i] = "pending" /\ pc'[i] = "done") =>
             /\ model_info' = model_info
             /\ resp'[i].body.type = DictGet(model_info, "best_model", "weizhi")
             /\ resp'[i].body.feature_count = DictGet(model_info, "feature_count", 0)
    ]_vars

\* after a training run, model info was read while an attribution request
\* had been answered
C6_Witness ==
  \E i, j \in Slots :
    /\ model_info # UntrainedInfo
    /\ req[i].kind = "model_info" /\ Done(i)
    /\ resp[i].body.type = model_info.best_model
    /\ resp[i].body.feature_count = 19
    /\ req[j].kind \in AttrKinds /\ Done(j) /\ resp[j].status = 200

\* C8: a successful attribution response carries shap_values whose keys are
\* among the configured feature and attribution columns and a top_features
\* list in descending order of importance magnitude; the API layer passes
\* the analyzer's mapping and list through, adding no key and keeping the
\* order.
C8_AttributionResult ==
  \A i \in Slots :
    (req[i].kind \in AttrKinds /\ Done(i) /\ resp[i].status = 200) =>
      LET body == resp[i].body
          result == analysis[i].result
      IN /\ analysis[i].called /\ ~analysis[i].raised
         /\ DOMAIN body.shap_values \subseteq AllColumns
         /\ body.shap_values = result.feature_importance
         /\ Len(body.top_features) = Len(result.top_features)
         /\ \A n \in DOMAIN body.top_features :
              /\ body.top_features[n].feature = result.top_features[n][1]
              /\ body.top_features[n].importance = result.top_features[n][2]
         /\ \A a, b \in DOMAIN body.top_features :
              a < b => Abs(body.top_features[a].importance)
                         >= Abs(body.top_features[b].importance)
         /\ body.data_summary.feature_count = Cardinality(DOMAIN body.shap_values)

\* a response whose first feature has a negative score of larger magnitude
\* than the second's positive score
C8_Witness ==
  \E i \in Slots :
    /\ req[i].kind = "attr_time" /\ Done(i) /\ resp[i].status = 200
    /\ Len(resp[i].body.top_features) = 2
    /\ resp[i].body.top_features[1].importance = -2
    /\ resp[i].body.top_features[2].importance = 1
    /\ resp[i].body.top_features[2].feature = "cv_task"

\* C9: the singletons are set in the order data_processor, model_trainer,
\* attribution_analyzer before any handler runs: while a request is held
\* none is None; once a constructor raised, startup is aborted and no
\* request is received or answered.
C9_SingletonsBeforeRequests ==
  /\ model_trainer # "None" => data_processor # "None"
  /\ attribution_analyzer # "None" => model_trainer # "None"
  /\ \A i \in Slots :
       pc[i] # "idle" =>
         /\ data_processor # "None"
         /\ model_trainer # "None"
         /\ attribution_analyzer # "None"
         /\ lifespan = "serving"
         /\ exc[i].detail \notin
              { NoneTypeError(m).detail :
                  m \in {"load_data_by_task_id", "load_data_by_time_range",
                         "load_and_preprocess", "train", "analyze_with_plots",
                         "get_model_info"} }
  /\ lifespan = "failed" =>
       /\ attribution_analyzer = "None"
       /\ \A i \in Slots : pc[i] = "idle" /\ resp[i] = NoResp
       /\ ~ENABLED Next

\* every kind of handler is at work or has answered, all singletons set
C9_Witness ==
  \E i, j \in Slots :
    /\ pc[i] = "analyze" /\ pc[j] = "done" /\ req[j].kind = "train"
    /\ data_processor = "DataProcessor"
    /\ model_trainer = "ModelTrainer"
    /\ attribution_analyzer = "AttributionAnalyzer"

====
